---- MODULE Spec2Model ----
(***************************************************************************)
(* ghq-mover (src/src/main.rs): find the Git repositories under a          *)
(* directory, plan a destination <ghq root>/<host>/<owner>/<name> for each *)
(* from its "origin" remote, ask for confirmation and move them.           *)
(*                                                                         *)
(* Strings (&str, String, PathBuf) are sequences of one-character strings, *)
(* so that parsing, splitting, trimming and PathBuf::push are computed on  *)
(* the text.  A filesystem path is the sequence of its components; the     *)
(* filesystem is a function from the paths that exist to what is there.    *)
(***************************************************************************)
EXTENDS Naturals, Sequences, FiniteSets

VARIABLES
    fs,          \* the live filesystem: path -> [kind, was]
    fs0,         \* the filesystem when the process started
    remotes,     \* git configuration of each repository root
    pinned,      \* directories the OS refuses to rename (EXDEV, EACCES)
    unreadable,  \* directories whose read_dir fails
    GHQ_ROOT,    \* environment variable GHQ_ROOT (Option)
    home,        \* std::env::home_dir() (Option)
    input,       \* the line read from stdin by confirm
    pc,          \* position in main_inner
    it,          \* the WalkDir iterator: stack of open directory listings
    ghq_dir,     \* find_git_repos: ghq_dir
    repos,       \* find_git_repos: repos, then main_inner: repos
    locals,      \* find_git_repos: host, owner, repo of each plan pushed
    idx,         \* main_inner: position of the for loop in repos
    outcomes,    \* what the for loop printed for each plan processed
    exit_code    \* process exit status (Option): None while running

vars == <<fs, fs0, remotes, pinned, unreadable, GHQ_ROOT, home, input, pc, it,
          ghq_dir, repos, locals, idx, outcomes, exit_code>>

-----------------------------------------------------------------------------
(* Bounds of the model.                                                    *)

\* longest URL path, in segments, that the planning specification generates
MaxSegs == 3

-----------------------------------------------------------------------------
(* Text.                                                                   *)

None == [some |-> FALSE, v |-> <<>>]
Some(x) == [some |-> TRUE, v |-> x]

Take(s, n) == SubSeq(s, 1, n)
Drop(s, n) == SubSeq(s, n + 1, Len(s))

IsPrefix(p, s) == Len(p) <= Len(s) /\ Take(s, Len(p)) = p
IsSuffix(p, s) == Len(p) <= Len(s) /\ Drop(s, Len(s) - Len(p)) = p

\* position of the first occurrence of pat in s, 0 when there is none
FindSub(s, pat) ==
    LET hits == {k \in 1..(Len(s) + 1 - Len(pat)) : SubSeq(s, k, k + Len(pat) - 1) = pat}
    IN  IF hits = {} THEN 0 ELSE CHOOSE k \in hits : \A j \in hits : k <= j

\* str::split_once(delimiter): around the first occurrence
split_once(s, ch) ==
    LET k == FindSub(s, <<ch>>)
    IN  IF k = 0 THEN None ELSE Some(<<Take(s, k - 1), Drop(s, k)>>)

\* str::trim_end_matches(pat) left out: the text as it is
trim_end_nothing(s, pat) == s

\* str::trim_end_matches(pat): pat removed from the end as often as it matches
RECURSIVE trim_end_matches(_, _)
trim_end_matches(s, pat) ==
    IF pat # <<>> /\ IsSuffix(pat, s)
    THEN trim_end_matches(Take(s, Len(s) - Len(pat)), pat)
    ELSE s

IsSpace(c) == c \in {" ", "\n", "\t", "\r"}

\* str::trim: white space removed at both ends
RECURSIVE trim(_)
trim(s) ==
    IF s = <<>> THEN s
    ELSE IF IsSpace(s[1]) THEN trim(Drop(s, 1))
    ELSE IF IsSpace(s[Len(s)]) THEN trim(Take(s, Len(s) - 1))
    ELSE s

LowerOf(c) ==
    CASE c = "Y" -> "y" [] c = "E" -> "e" [] c = "S" -> "s"
      [] c = "N" -> "n" [] c = "O" -> "o" [] OTHER -> c

\* str::to_lowercase
to_lowercase(s) == [k \in 1..Len(s) |-> LowerOf(s[k])]

-----------------------------------------------------------------------------
(* Paths.                                                                  *)

Sep == "/"

\* PathBuf::push(path) on Unix: an absolute path replaces self, otherwise a
\* separator is added unless self is empty or already ends in one
push(self, path) ==
    IF path # <<>> /\ path[1] = Sep THEN path
    ELSE IF self # <<>> /\ self[Len(self)] # Sep THEN self \o <<Sep>> \o path
    ELSE self \o path

\* Path::components of an absolute path: the names between separators, empty
\* names (repeated or trailing separators) and "." left out
RECURSIVE Components(_)
Components(p) ==
    IF p = <<>> THEN <<>>
    ELSE LET k == FindSub(p, <<Sep>>)
             head == IF k = 0 THEN p ELSE Take(p, k - 1)
             rest == IF k = 0 THEN <<>> ELSE Drop(p, k)
         IN  IF head = <<>> \/ head = <<".">>
             THEN Components(rest)
             ELSE <<head>> \o Components(rest)

\* the text of the absolute path with these components
RECURSIVE PathText(_)
PathText(cs) ==
    IF cs = <<>> THEN <<>> ELSE <<Sep>> \o cs[1] \o PathText(Drop(cs, 1))

\* Path::parent, on components
parent(cs) == Take(cs, Len(cs) - 1)

-----------------------------------------------------------------------------
(* Remote URLs.  git_url_parse::GitUrl::parse is a library call (line 110); *)
(* it is modelled by the results the crate documents for each syntax:      *)
(*   scheme://[user@]host[:port]/path  host, path with its leading "/"     *)
(*   [user@]host:path (scp-like)       host, path as written after ":"     *)
(*   /path, ./path, file:///path       no host, the path as written        *)
(* and an error for an empty path or a port that is not a number.          *)

Digits == {"0", "1", "2", "3", "4", "5", "6", "7", "8", "9"}

ParseErr == [ok |-> FALSE, host |-> None, path |-> <<>>]
Parsed(h, p) ==
    IF p = <<>> THEN ParseErr
    ELSE [ok |-> TRUE, host |-> IF h = <<>> THEN None ELSE Some(h), path |-> p]

\* [user@]host[:port] of a scheme:// URL
Authority(auth) ==
    LET at == FindSub(auth, <<"@">>)
        hostport == Drop(auth, at)
        colon == FindSub(hostport, <<":">>)
    IN  [host |-> IF colon = 0 THEN hostport ELSE Take(hostport, colon - 1),
         portOk |-> colon = 0 \/ \A k \in (colon + 1)..Len(hostport) : hostport[k] \in Digits]

GitUrlParse(raw) ==
    LET k == FindSub(raw, <<":", "/", "/">>)
    IN  IF raw = <<>> THEN ParseErr
        ELSE IF k > 0
        THEN LET rest == Drop(raw, k + 2)
                 slash == FindSub(rest, <<Sep>>)
                 auth == IF slash = 0 THEN rest ELSE Take(rest, slash - 1)
                 path == IF slash = 0 THEN <<>> ELSE Drop(rest, slash - 1)
             IN  IF Authority(auth).portOk
                 THEN Parsed(Authority(auth).host, path)
                 ELSE ParseErr
        ELSE IF raw[1] \in {Sep, "."} \/ FindSub(raw, <<":">>) = 0
        THEN Parsed(<<>>, raw)
        ELSE LET colon == FindSub(raw, <<":">>)
                 auth == Take(raw, colon - 1)
             IN  Parsed(Drop(auth, FindSub(auth, <<"@">>)), Drop(raw, colon))

-----------------------------------------------------------------------------
(* The filesystem.  fs maps each existing path (sequence of components,    *)
(* the root <<>> always exists) to [kind |-> "dir" or "file", was |-> the  *)
(* path it had when the process started, <<>> for a directory the process  *)
(* created].                                                               *)

\* Path::exists answering only for regular files
exists_file_only(f, cs) == cs \in DOMAIN f /\ f[cs].kind = "file"

\* Path::exists, line 49
exists(f, cs) == cs = <<>> \/ cs \in DOMAIN f

IsDir(f, cs) == cs = <<>> \/ (cs \in DOMAIN f /\ f[cs].kind = "dir")

Children(f, cs) == {q \in DOMAIN f : Len(q) = Len(cs) + 1 /\ IsPrefix(cs, q)}

\* the tree below cs: relative path -> what is there
Subtree(f, cs) ==
    LET below == {q \in DOMAIN f : IsPrefix(cs, q)}
    IN  [r \in {Drop(q, Len(cs)) : q \in below} |-> f[cs \o r]]

\* fs::create_dir_all: mkdir of every missing ancestor, top down; an error
\* (and nothing created) when a component of the path is a regular file
create_dir_all(f, cs) ==
    LET chain == {Take(cs, k) : k \in 1..Len(cs)}
        made == chain \ DOMAIN f
    IN  IF \E a \in chain : a \in DOMAIN f /\ f[a].kind = "file"
        THEN [ok |-> FALSE, fs |-> f]
        ELSE [ok |-> TRUE,
              fs |-> [q \in DOMAIN f \cup made |->
                        IF q \in DOMAIN f THEN f[q] ELSE [kind |-> "dir", was |-> <<>>]]]

\* fs::rename (rename(2)) of src to dst: all or nothing
rename(f, pin, src, dst) ==
    LET moved == {q \in DOMAIN f : IsPrefix(src, q)}
        kept == (DOMAIN f \ moved) \ {dst}
        refused ==
            \/ src \notin DOMAIN f                        \* ENOENT, EBUSY
            \/ src \in pin                                \* EXDEV, EACCES
            \/ IsPrefix(src, dst)                         \* EINVAL
            \/ ~IsDir(f, parent(dst))                     \* ENOENT, ENOTDIR
            \/ /\ dst \in DOMAIN f                        \* ENOTDIR, EISDIR, ENOTEMPTY
               /\ \/ f[dst].kind # f[src].kind
                  \/ Children(f, dst) # {}
    IN  IF refused THEN [ok |-> FALSE, fs |-> f]
        ELSE [ok |-> TRUE,
              fs |-> [q \in kept \cup {dst \o Drop(p, Len(src)) : p \in moved} |->
                        IF q \in kept THEN f[q] ELSE f[src \o Drop(q, Len(dst))]]]

\* the body of the for loop of main_inner without its dest.exists() check
relocate_unchecked(f, pin, src, dest) ==
    LET mk == create_dir_all(f, parent(Components(dest)))
        mv == rename(mk.fs, pin, Components(src), Components(dest))
    IN  IF ~mk.ok THEN [fs |-> mk.fs, outcome |-> "failed_mkdir"]
        ELSE [fs |-> mv.fs, outcome |-> IF mv.ok THEN "moved" ELSE "failed_rename"]

\* the body of the for loop of main_inner, for one (src, dest) of repos
relocate(f, pin, src, dest) ==
    IF exists(f, Components(dest))
    THEN [fs |-> f, outcome |-> "skipped"]
    ELSE LET mk == create_dir_all(f, parent(Components(dest)))
             mv == rename(mk.fs, pin, Components(src), Components(dest))
         IN  IF ~mk.ok THEN [fs |-> mk.fs, outcome |-> "failed_mkdir"]
             ELSE [fs |-> mv.fs, outcome |-> IF mv.ok THEN "moved" ELSE "failed_rename"]

\* confirm answering yes to whatever starts with "y"
confirm_prefix(line) ==
    LET s == to_lowercase(trim(line)) IN s # <<>> /\ s[1] = "y"

\* confirm: the line read, trimmed and lowercased, is "y" or "yes"
confirm(line) ==
    to_lowercase(trim(line)) \in {<<"y">>, <<"y", "e", "s">>}

-----------------------------------------------------------------------------
(* find_git_repos.                                                         *)

DotGit == <<".", "g", "i", "t">>

\* find_git_repos, lines 84-90: GHQ_ROOT if set, else <home>/ghq
resolve_ghq_dir(env_root, env_home) ==
    IF env_root.some THEN Some(env_root.v)
    ELSE IF env_home.some THEN Some(push(env_home.v, <<"g", "h", "q">>))
    ELSE None

Skip == [kind |-> "skip", dest |-> <<>>, host |-> <<>>, owner |-> <<>>, name |-> <<>>]
Fatal == [kind |-> "error", dest |-> <<>>, host |-> <<>>, owner |-> <<>>, name |-> <<>>]

\* find_git_repos, lines 106-122, for the repository whose configuration is
\* remote: skip it, return an error (the ? of line 118), or plan target_path
plan_entry(ghq, remote) ==
    IF remote.kind # "url" THEN Skip
    ELSE LET git_url == GitUrlParse(remote.url)
             sp == split_once(git_url.path, Sep)
             owner == sp.v[1]
             name == trim_end_matches(sp.v[2], DotGit)
         IN  IF ~git_url.ok THEN Skip
             ELSE IF ~sp.some THEN Skip
             ELSE IF ~git_url.host.some THEN Fatal
             ELSE [kind |-> "plan",
                   dest |-> push(push(push(ghq, git_url.host.v), owner), name),
                   host |-> git_url.host.v, owner |-> owner, name |-> name]

\* WalkDir: the listing pushed when a directory is entered; a directory that
\* cannot be read gives one error and no entry
open_dir(f, unread, cs) ==
    IF cs \in unread THEN [ents |-> {}, err |-> TRUE]
    ELSE [ents |-> Children(f, cs), err |-> FALSE]

\* filter_entry(|e| e.file_type().is_dir()): the entries the iterator yields
Yielded(f, frame) == {e \in frame.ents : f[e].kind = "dir"}

\* IntoIter::next: listings with nothing left to yield are popped
RECURSIVE Unwind(_, _)
Unwind(f, stack) ==
    IF stack = <<>> THEN stack
    ELSE IF stack[Len(stack)].err \/ Yielded(f, stack[Len(stack)]) # {} THEN stack
    ELSE Unwind(f, Take(stack, Len(stack) - 1))

\* it.skip_current_dir(): the listing of the directory just yielded is popped
skip_current_dir(stack) == Take(stack, Len(stack) - 1)

RemoteOf(cs) == IF cs \in DOMAIN remotes THEN remotes[cs] ELSE [kind |-> "openfail", url |-> <<>>]

-----------------------------------------------------------------------------
(* The process.                                                            *)

Exit(code) ==
    /\ pc' = "done"
    /\ exit_code' = Some(code)

\* main_inner line 29 entering find_git_repos, lines 82-94
find_git_repos_begin(target_dir) ==
    /\ pc = "start"
    /\ ghq_dir' = resolve_ghq_dir(GHQ_ROOT, home)
    /\ IF ghq_dir'.some
       THEN /\ pc' = "walk"
            /\ it' = <<[ents |-> {target_dir}, err |-> FALSE]>>
            /\ UNCHANGED exit_code
       ELSE /\ Exit(1)
            /\ UNCHANGED it
    /\ UNCHANGED <<fs, fs0, remotes, pinned, unreadable, GHQ_ROOT, home, input,
                   repos, locals, idx, outcomes>>

\* one iteration of the loop of lines 95-125 in which it.next() yields
find_git_repos_next ==
    /\ pc = "walk"
    /\ Unwind(fs, it) # <<>>
    /\ LET st == Unwind(fs, it)
           top == Len(st)
       IN  IF st[top].err
           THEN /\ it' = [st EXCEPT ![top].err = FALSE]
                /\ UNCHANGED <<repos, locals, pc, exit_code>>
           ELSE \E entry \in Yielded(fs, st[top]) :
                  LET entered == Append([st EXCEPT ![top].ents = @ \ {entry}],
                                        open_dir(fs, unreadable, entry))
                      repo_root == parent(entry)
                      plan == plan_entry(ghq_dir.v, RemoteOf(repo_root))
                  IN  IF entry[Len(entry)] # DotGit
                      THEN /\ it' = entered
                           /\ UNCHANGED <<repos, locals, pc, exit_code>>
                      ELSE /\ it' = skip_current_dir(entered)
                           /\ CASE plan.kind = "skip" ->
                                     UNCHANGED <<repos, locals, pc, exit_code>>
                                [] plan.kind = "error" ->
                                     /\ Exit(1)
                                     /\ UNCHANGED <<repos, locals>>
                                [] plan.kind = "plan" ->
                                     /\ repos' = Append(repos, [src |-> PathText(repo_root),
                                                                dest |-> plan.dest])
                                     /\ locals' = Append(locals, [host |-> plan.host,
                                                                  owner |-> plan.owner,
                                                                  name |-> plan.name])
                                     /\ UNCHANGED <<pc, exit_code>>
    /\ UNCHANGED <<fs, fs0, remotes, pinned, unreadable, GHQ_ROOT, home, input,
                   ghq_dir, idx, outcomes>>

\* it.next() is None: find_git_repos returns, main_inner lines 31-39
find_git_repos_end ==
    /\ pc = "walk"
    /\ Unwind(fs, it) = <<>>
    /\ it' = <<>>
    /\ IF repos = <<>>
       THEN Exit(0)
       ELSE /\ pc' = "confirm"
            /\ UNCHANGED exit_code
    /\ UNCHANGED <<fs, fs0, remotes, pinned, unreadable, GHQ_ROOT, home, input,
                   ghq_dir, repos, locals, idx, outcomes>>

\* main_inner lines 41-44: the prompt and its answer
ask(line) ==
    /\ pc = "confirm"
    /\ input' = Some(line)
    /\ IF confirm(line)
       THEN /\ pc' = "exec"
            /\ UNCHANGED exit_code
       ELSE Exit(0)
    /\ UNCHANGED <<fs, fs0, remotes, pinned, unreadable, GHQ_ROOT, home, it,
                   ghq_dir, repos, locals, idx, outcomes>>

\* confirm, lines 74 and 77: flush or read_line fails, main exits with 1
ask_error ==
    /\ pc = "confirm"
    /\ Exit(1)
    /\ UNCHANGED <<fs, fs0, remotes, pinned, unreadable, GHQ_ROOT, home, input, it,
                   ghq_dir, repos, locals, idx, outcomes>>

\* main_inner lines 46-65: one iteration of the for loop
move ==
    /\ pc = "exec"
    /\ idx <= Len(repos)
    /\ LET r == relocate(fs, pinned, repos[idx].src, repos[idx].dest)
       IN  /\ fs' = r.fs
           /\ outcomes' = Append(outcomes, r.outcome)
    /\ idx' = idx + 1
    /\ UNCHANGED <<fs0, remotes, pinned, unreadable, GHQ_ROOT, home, input, pc, it,
                   ghq_dir, repos, locals, exit_code>>

\* main_inner lines 67-68, then main: exit status 0
finish ==
    /\ pc = "exec"
    /\ idx > Len(repos)
    /\ Exit(0)
    /\ UNCHANGED <<fs, fs0, remotes, pinned, unreadable, GHQ_ROOT, home, input, it,
                   ghq_dir, repos, locals, idx, outcomes>>

-----------------------------------------------------------------------------
(* Initial states: the directory tree, the environment and the remotes the *)
(* process is started on.                                                  *)

W == <<"w">>
A == <<"a">>
S == <<"s">>
C == <<"c">>
F == <<"f">>
H == <<"h">>
K == <<"k">>
O == <<"o">>
N == <<"n">>

Base == <<W>>                  \* the directory given on the command line
RepoA == <<W, A>>
RepoS == <<W, A, S>>           \* inside RepoA, beside its .git
RepoIn == <<W, A, DotGit, S>>  \* inside the .git of RepoA
RepoC == <<W, C>>

RootG == <<Sep, "g">>            \* GHQ_ROOT outside the scanned directory
RootWG == <<Sep, "w", Sep, "g">> \* GHQ_ROOT inside the scanned directory
HomeU == <<Sep, "u">>

\* every path with all its ancestors
Closure(paths) == UNION {{Take(q, k) : k \in 1..Len(q)} : q \in paths}

MkFs(dirs, files) ==
    [q \in Closure(dirs \cup files) |->
        [kind |-> IF q \in files THEN "file" ELSE "dir", was |-> q]]

Url(text) == [kind |-> "url", url |-> text]
NoUrl(kind) == [kind |-> kind, url |-> <<>>]

RECURSIVE JoinSegs(_)
JoinSegs(segs) ==
    IF Len(segs) = 1 THEN segs[1] ELSE segs[1] \o <<Sep>> \o JoinSegs(Drop(segs, 1))

Forms == {"https", "ssh", "sshport", "scp", "file"}

\* the text of a remote URL of the given syntax
UrlText(form, host, segs, suffix) ==
    LET path == JoinSegs(segs) \o suffix
    IN  CASE form = "https" ->
               <<"h", "t", "t", "p", "s", ":", "/", "/">> \o host \o <<Sep>> \o path
          [] form = "ssh" ->
               <<"s", "s", "h", ":", "/", "/">> \o host \o <<Sep>> \o path
          [] form = "sshport" ->
               <<"s", "s", "h", ":", "/", "/", "g", "i", "t", "@">> \o host
                  \o <<":", "2", "2", Sep>> \o path
          [] form = "scp" -> <<"g", "i", "t", "@">> \o host \o <<":">> \o path
          [] form = "file" -> <<Sep>> \o path

Envs ==
    {[root |-> None, home |-> None],
     [root |-> None, home |-> Some(HomeU)],
     [root |-> Some(RootG), home |-> Some(HomeU)],
     [root |-> Some(RootWG), home |-> Some(HomeU)]}

RemotesA ==
    {NoUrl("openfail"), NoUrl("noorigin"), NoUrl("nourl"),
     Url(<<>>),
     Url(UrlText("https", H, <<O, N>>, DotGit)),
     Url(UrlText("scp", H, <<O, N, N>>, <<>>)),
     Url(UrlText("scp", H, <<N>>, DotGit)),
     Url(UrlText("file", H, <<O, N>>, DotGit))}

RemotesC == {NoUrl("noorigin"), Url(UrlText("scp", H, <<O, N>>, DotGit))}

RemotesS == {Url(UrlText("scp", H, <<O, O>>, <<>>)), Url(UrlText("ssh", H, <<O, N>>, <<>>))}

RemoteBase == Url(UrlText("https", H, <<N, O>>, <<>>))
RemoteHost == Url(UrlText("scp", K, <<O, N>>, <<>>))

Nestings == {"none", "sibling", "inside"}
Others == {"absent", "repo", "gitfile", "unreadable"}
Workspaces == {"empty", "taken", "takenEmpty", "hostFile", "hostRepo"}

NestedDirs(n) ==
    CASE n = "sibling" -> {RepoS \o <<DotGit>>}
      [] n = "inside" -> {RepoIn \o <<DotGit>>}
      [] OTHER -> {}

\* what is under the ghq root r before the run
WorkspaceDirs(r, ws) ==
    CASE ws = "taken" -> {r \o <<H, O, N>>}
      [] ws = "takenEmpty" -> {r \o <<H, O, N>>}
      [] ws = "hostFile" -> {r}
      [] ws = "hostRepo" -> {r \o <<H, DotGit>>}
      [] OTHER -> {}

WorkspaceFiles(r, ws) ==
    CASE ws = "taken" -> {r \o <<H, O, N, F>>}
      [] ws = "hostFile" -> {r \o <<H>>}
      [] OTHER -> {}

Layout(nest, other, ws, baseRepo, env) ==
    LET r == Components(resolve_ghq_dir(env.root, env.home).v)
        dirs == {Base, RepoA \o <<DotGit>>}
                  \cup NestedDirs(nest)
                  \cup (IF other \in {"repo", "unreadable"} THEN {RepoC \o <<DotGit>>} ELSE {})
                  \cup (IF other = "gitfile" THEN {RepoC} ELSE {})
                  \cup (IF baseRepo THEN {Base \o <<DotGit>>} ELSE {})
                  \cup (IF env.home.some THEN {Components(env.home.v)} ELSE {})
                  \cup WorkspaceDirs(r, ws)
        files == (IF other = "gitfile" THEN {RepoC \o <<DotGit>>} ELSE {})
                  \cup WorkspaceFiles(r, ws)
    IN  MkFs(dirs, files)

\* the repository roots of a tree: directories with a .git directory in them
RepoRoots(f) == {parent(q) : q \in {x \in DOMAIN f : x[Len(x)] = DotGit /\ f[x].kind = "dir"}}

RemoteChoices(cs) ==
    CASE cs = RepoA -> RemotesA
      [] cs = RepoC -> RemotesC
      [] cs = RepoS -> RemotesS
      [] cs = Base -> {RemoteBase}
      [] OTHER -> {RemoteHost}

Idle ==
    /\ input = None
    /\ it = <<>>
    /\ ghq_dir = None
    /\ repos = <<>>
    /\ locals = <<>>
    /\ idx = 1
    /\ outcomes = <<>>
    /\ exit_code = None

Init ==
    /\ pc = "start"
    /\ \E env \in Envs :
         /\ GHQ_ROOT = env.root
         /\ home = env.home
         /\ \E nest \in Nestings, other \in Others, ws \in Workspaces, baseRepo \in BOOLEAN :
              /\ ~(env.root.some \/ env.home.some) => ws = "empty"
              /\ ws = "hostRepo" => env.root = Some(RootWG)
              /\ baseRepo => nest = "none" /\ other = "absent"
              /\ fs = Layout(nest, other, ws, baseRepo, env)
              /\ unreadable = IF other = "unreadable" THEN {RepoC} ELSE {}
    /\ fs0 = fs
    /\ remotes \in {m \in [RepoRoots(fs) -> RemotesA \cup RemotesC \cup RemotesS
                                              \cup {RemoteBase, RemoteHost}] :
                      \A cs \in DOMAIN m : m[cs] \in RemoteChoices(cs)}
    /\ pinned \in {{}, {RepoA}, {RepoC} \cap DOMAIN fs}
    /\ Idle

\* lines read from stdin; <<>> is end of input
Answers ==
    {<<>>, <<"\n">>, <<"Y", "\n">>, <<" ", "Y", "e", "S", " ", "\n">>,
     <<"n", "\n">>, <<"y", "e", "p", "\n">>, <<"y", " ", "e", "s", "\n">>}

Next ==
    \/ find_git_repos_begin(Base)
    \/ find_git_repos_next
    \/ find_git_repos_end
    \/ \E line \in Answers : ask(line)
    \/ ask_error
    \/ move
    \/ finish

Spec == Init /\ [][Next]_vars

-----------------------------------------------------------------------------
(* Planning alone: one repository, its remote URL drawn from every syntax  *)
(* with paths of up to MaxSegs segments (a segment may be empty).          *)

SegNames == {O, N, <<>>}
SegLists == UNION {[1..k -> SegNames] : k \in 1..MaxSegs}
Suffixes == {<<>>, DotGit}

InitPlan ==
    /\ pc = "start"
    /\ \E env \in {e \in Envs : e.home.some /\ e.root # Some(RootWG)} :
         /\ GHQ_ROOT = env.root
         /\ home = env.home
         /\ fs = Layout("none", "absent", "empty", FALSE, env)
    /\ fs0 = fs
    /\ \E form \in Forms, segs \in SegLists, suffix \in Suffixes :
         remotes = [cs \in {RepoA} |-> Url(UrlText(form, H, segs, suffix))]
    /\ pinned = {}
    /\ unreadable = {}
    /\ Idle

SpecPlan == InitPlan /\ [][Next]_vars

-----------------------------------------------------------------------------
(* Relocation alone: the for loop of main_inner given the same             *)
(* (source, destination) twice.                                            *)

TwiceDests(r) == {push(push(push(r, H), O), N), push(push(push(r, H), O), O \o <<Sep>> \o N)}

InitTwice ==
    /\ pc = "exec"
    /\ \E env \in {e \in Envs : e.home.some}, nest \in Nestings, other \in Others,
          ws \in Workspaces \ {"hostRepo"} :
         /\ GHQ_ROOT = env.root
         /\ home = env.home
         /\ ghq_dir = resolve_ghq_dir(env.root, env.home)
         /\ fs = Layout(nest, other, ws, FALSE, env)
         /\ unreadable = IF other = "unreadable" THEN {RepoC} ELSE {}
    /\ fs0 = fs
    /\ remotes = [cs \in RepoRoots(fs) |-> NoUrl("noorigin")]
    /\ pinned \in {{}, {RepoA}}
    /\ \E s \in RepoRoots(fs), d \in TwiceDests(ghq_dir.v) :
         repos = <<[src |-> PathText(s), dest |-> d], [src |-> PathText(s), dest |-> d]>>
    /\ input = Some(<<"y", "\n">>)
    /\ it = <<>>
    /\ locals = <<>>
    /\ idx = 1
    /\ outcomes = <<>>
    /\ exit_code = None

NextTwice ==
    \/ move
    \/ finish

SpecTwice == InitTwice /\ [][NextTwice]_vars

-----------------------------------------------------------------------------
(* Properties.                                                             *)

SrcOf(j) == Components(repos[j].src)
DestOf(j) == Components(repos[j].dest)
Failed == {"failed_mkdir", "failed_rename"}
StrictlyInside(q, cs) == IsPrefix(cs, q) /\ Len(q) > Len(cs)

\* something is at path cs of filesystem f
Present(f, cs) == cs = <<>> \/ cs \in DOMAIN f

\* a step of the for loop that processes a plan
Processing == pc = "exec" /\ idx <= Len(repos) /\ idx' = idx + 1

\* a plan whose destination exists when it is processed is skipped and the
\* filesystem stays as it is
SkipFrame ==
    (Processing /\ Present(fs, DestOf(idx)))
        => (fs' = fs /\ outcomes' = Append(outcomes, "skipped"))

\* C1 as stated: a plan whose destination exists when it is processed is
\* skipped with the filesystem unchanged, and of two plans with the same
\* destination only the first one processed can be the one that is moved.
C1_Original ==
    [][/\ SkipFrame
       /\ \A i, j \in 1..Len(outcomes') :
            (i < j /\ DestOf(i) = DestOf(j)) => outcomes'[j] # "moved"]_vars

\* C1 amended: a plan whose destination exists when it is processed is
\* skipped with the filesystem unchanged; of two plans with the same
\* destination, the later one is skipped once the earlier one has been moved,
\* unless a plan processed between them moved a directory holding that
\* destination away.
C1_SkipExisting ==
    [][/\ SkipFrame
       /\ \A i, j \in 1..Len(outcomes') :
            (i < j /\ DestOf(i) = DestOf(j) /\ outcomes'[i] = "moved"
                   /\ outcomes'[j] # "skipped")
                => \E k \in (i + 1)..(j - 1) :
                      outcomes'[k] = "moved" /\ IsPrefix(SrcOf(k), DestOf(i))]_vars

\* C1: two plans with one destination, the first moved, the second skipped
C1_Witness ==
    \E i, j \in 1..Len(outcomes) :
        /\ i < j
        /\ DestOf(i) = DestOf(j)
        /\ outcomes[i] = "moved"
        /\ outcomes[j] = "skipped"
        /\ Present(fs, DestOf(j))

\* C2: when processing a plan ends in failure, the source tree is still at
\* its path with its contents unchanged and nothing is at the destination.
C2_SourceUntouched ==
    [][(Processing /\ outcomes'[idx] \in Failed)
          => /\ Present(fs', SrcOf(idx))
             /\ Subtree(fs', SrcOf(idx)) = Subtree(fs, SrcOf(idx))
             /\ ~Present(fs', DestOf(idx))]_vars

\* C3: no source of the plan is strictly inside another source of the plan.
C3_NoNested ==
    \A i, j \in 1..Len(repos) : ~StrictlyInside(SrcOf(i), SrcOf(j))

\* a remote from which lines 106-122 obtain host, owner and name
Usable(remote) == plan_entry(<<>>, remote).kind = "plan"

\* C4: a repository whose remote gives no host, owner and name is left out
\* of the plan and discovery goes on: find_git_repos returns no error for
\* it, and the repositories directly under the scanned directory whose
\* remote is usable are in the plan when discovery has ended.
C4_SkippedNotFatal ==
    /\ \A j \in 1..Len(repos) : Usable(RemoteOf(SrcOf(j)))
    /\ (exit_code = Some(1)) => ~ghq_dir.some
    /\ pc \in {"confirm", "exec"} =>
          \A cs \in {RepoA, RepoC} :
              (cs \in RepoRoots(fs0) /\ cs \notin unreadable /\ Usable(RemoteOf(cs)))
                  => \E j \in 1..Len(repos) : SrcOf(j) = cs

\* C5: every plan is processed, and a plan before which no plan was moved
\* ends as it would alone on the initial filesystem.
C5_Independent ==
    /\ (pc = "done" /\ input.some /\ confirm(input.v)) => Len(outcomes) = Len(repos)
    /\ \A j \in 1..Len(outcomes) :
          (\A i \in 1..(j - 1) : outcomes[i] # "moved")
              => outcomes[j] = relocate(fs0, pinned, repos[j].src, repos[j].dest).outcome

\* C6: the same plan relocated twice, the first time moved: the second time
\* it is skipped, the filesystem stays as the first left it and the
\* destination holds the tree that was at the source.
C6_MovedThenSkipped ==
    [][(Processing /\ idx = 2 /\ repos[1] = repos[2] /\ outcomes[1] = "moved")
          => /\ outcomes' = <<"moved", "skipped">>
             /\ fs' = fs
             /\ Subtree(fs', DestOf(2)) = Subtree(fs0, SrcOf(2))
             /\ ~Present(fs', SrcOf(2))]_vars

\* C6: the second pass over the plan has been skipped after the first moved it
C6_Witness ==
    /\ Len(repos) = 2
    /\ repos[1] = repos[2]
    /\ outcomes = <<"moved", "skipped">>
    /\ Subtree(fs, DestOf(1)) = Subtree(fs0, SrcOf(1))

\* the answers that confirm: "y" or "yes" after trimming and lowercasing
Affirmative == {line \in Answers : to_lowercase(trim(line)) \in {<<"y">>, <<"y", "e", "s">>}}

\* C7: the filesystem is as at the start until the prompt has been answered,
\* the prompt is shown only when the walk is over, and an answer other than
\* y or yes ends the run with the filesystem as at the start and status 0.
C7_NothingBeforeYes ==
    /\ ~input.some => fs = fs0
    /\ pc = "confirm" => (it = <<>> /\ ~input.some /\ repos # <<>>)
    /\ (input.some /\ input.v \notin Affirmative)
          => (pc = "done" /\ fs = fs0 /\ outcomes = <<>> /\ exit_code = Some(0))

\* C7: the prompt was answered "yep" and the run has ended, nothing moved
C7_Witness ==
    /\ pc = "done"
    /\ input = Some(<<"y", "e", "p", "\n">>)
    /\ repos # <<>>
    /\ fs = fs0
    /\ exit_code = Some(0)

\* C8: every planned destination is the ghq root extended by the host, the
\* owner and the name, strictly inside the ghq root.
C8_UnderRoot ==
    \A j \in 1..Len(repos) :
        /\ StrictlyInside(DestOf(j), Components(ghq_dir.v))
        /\ DestOf(j) = Components(ghq_dir.v)
                          \o Components(locals[j].host)
                          \o Components(locals[j].owner)
                          \o Components(locals[j].name)

\* C9: https://host/owner/name, ssh://host/owner/name,
\* ssh://git@host:22/owner/name and git@host:owner/name, with or without
\* .git, are all planned to <ghq root>/host/owner/name.
C9_SameDestination ==
    \A form \in Forms \ {"file"}, owner \in {O, N}, name \in {O, N}, suffix \in Suffixes :
        (/\ pc \notin {"start", "walk"}
         /\ RepoA \in DOMAIN remotes
         /\ remotes[RepoA] = Url(UrlText(form, H, <<owner, name>>, suffix)))
            => /\ Len(repos) = 1
               /\ repos[1].dest = ghq_dir.v \o <<Sep>> \o H \o <<Sep>> \o owner \o <<Sep>> \o name

\* C9: the scp-like URL with .git is planned to <ghq root>/h/o/n
C9_Witness ==
    /\ pc = "confirm"
    /\ remotes[RepoA] = Url(UrlText("scp", H, <<O, N>>, DotGit))
    /\ repos = <<[src |-> PathText(RepoA), dest |-> RootG \o PathText(<<H, O, N>>)]>>

\* C10: the owner and the name of every plan are non-empty and hold no "/",
\* the name does not end in .git, and a remote whose path has fewer than
\* two segments is not planned.
C10_OwnerAndName ==
    /\ \A j \in 1..Len(locals) :
          /\ locals[j].owner # <<>>
          /\ locals[j].name # <<>>
          /\ FindSub(locals[j].owner, <<Sep>>) = 0
          /\ FindSub(locals[j].name, <<Sep>>) = 0
          /\ ~IsSuffix(DotGit, locals[j].name)
    /\ \A form \in Forms, seg \in SegNames, suffix \in Suffixes :
          (RepoA \in DOMAIN remotes /\ remotes[RepoA] = Url(UrlText(form, H, <<seg>>, suffix)))
              => repos = <<>>

====
